---- MODULE Spec2Model ----
(***************************************************************************)
(* A model of two pieces of the PyOxidizer repository:                     *)
(*   - apple-codesign/src/code_hash.rs: paged code hashes of a Mach-O      *)
(*     binary (compute_paged_hashes, compute_code_hashes);                 *)
(*   - pyoxidizer/src/python_distributions.rs: the collection of known     *)
(*     Python distributions (PythonDistributionCollection).                *)
(* Results of fallible Rust functions are records [tag, val] with tag one  *)
(* of "Ok", "Err", "Panic".                                                *)
(***************************************************************************)
EXTENDS Integers, Sequences, FiniteSets, TLC

\* ------------------------------------------------------------------ bounds
MaxDataLen == 5
MaxRangeLen == 2
MaxRanges == 2
MaxPageSize == 3
MaxDists == 3

Bytes == {0, 1}

RECURSIVE SeqsUpTo(_, _)
SeqsUpTo(S, n) ==
    IF n = 0 THEN {<<>>}
    ELSE LET shorter == SeqsUpTo(S, n - 1)
         IN  shorter \cup {Append(s, x) : s \in {t \in shorter : Len(t) = n - 1}, x \in S}

Datas == SeqsUpTo(Bytes, MaxDataLen)
Ranges == SeqsUpTo(Bytes, MaxRangeLen)
Machos == SeqsUpTo(Ranges, MaxRanges)
PageSizes == 0..MaxPageSize

\* ------------------------------------------------------------ result type
Ok(v) == [tag |-> "Ok", val |-> v]
Err(e) == [tag |-> "Err", val |-> e]
Panic == [tag |-> "Panic", val |-> <<>>]

Min(a, b) == IF a < b THEN a ELSE b

VARIABLES data, macho, hash, page_size, rejected, called, result, digested,
          dists, triples, request, found

distVars == <<dists, triples, request, found>>
vars == <<data, macho, hash, page_size, rejected, called, result, digested,
          dists, triples, request, found>>

\* Option<T>: None is the empty sequence, Some(x) is <<x>>.
None == <<>>
Some(x) == <<x>>

\* The arguments of find_distribution before any call of it.
NoRequest == [target_triple |-> <<>>, flavor |-> "Standalone",
              python_major_minor_version |-> None]

\* ------------------------------------------------------- the digest (spec)
DigestType == {"Sha1", "Sha256", "Sha256Truncated"}

Sha1Len == 20
Sha256Len == 32
Sha256TruncatedLen == 20

output_length(h) ==
    CASE h = "Sha1" -> Sha1Len
      [] h = "Sha256" -> Sha256Len
      [] h = "Sha256Truncated" -> Sha256TruncatedLen

\* The compression functions, abstracted as collision-free on the bounded
\* inputs: the bytes of the input shifted by one (so that the length of the
\* input is part of the image), padded with zeros.  Sha1 shifts by 101 so that
\* it differs from Sha256.
Sha256(bytes) == [i \in 1..Sha256Len |-> IF i <= Len(bytes) THEN bytes[i] + 1 ELSE 0]
Sha1(bytes) == [i \in 1..Sha1Len |-> IF i <= Len(bytes) THEN bytes[i] + 101 ELSE 0]

Digest(h, bytes) ==
    CASE h = "Sha1" -> Sha1(bytes)
      [] h = "Sha256" -> Sha256(bytes)
      [] h = "Sha256Truncated" -> SubSeq(Sha256(bytes), 1, Sha256TruncatedLen)

HashingError(chunk) == <<chunk>>

\* The digest primitive rejects a chunk that holds a byte of `rejected`.
Rejects(chunk) == \E i \in 1..Len(chunk) : chunk[i] \in rejected

digest_data(h, chunk) ==
    IF Rejects(chunk) THEN Err(HashingError(chunk)) ELSE Ok(Digest(h, chunk))

\* --------------------------------------------------------- code_hash.rs
\* Iterator::flatten over a vector of vectors.
RECURSIVE flatten(_)
flatten(vs) == IF vs = <<>> THEN <<>> ELSE Head(vs) \o flatten(Tail(vs))

\* Mutant: chunks_exact, which leaves the remainder out.
RECURSIVE chunks_exact(_, _)
chunks_exact(d, ps) ==
    IF Len(d) < ps THEN <<>>
    ELSE <<SubSeq(d, 1, ps)>> \o chunks_exact(SubSeq(d, ps + 1, Len(d)), ps)

\* Mutant: rchunks, which cuts the pages from the end of the data.
RECURSIVE rchunks(_, _)
rchunks(d, ps) ==
    IF Len(d) = 0 THEN <<>>
    ELSE LET n == Min(Len(d), ps)
         IN  <<SubSeq(d, Len(d) - n + 1, Len(d))>> \o rchunks(SubSeq(d, 1, Len(d) - n), ps)

\* Mutant: a remainder chunk is always emitted, also when it is empty.
RECURSIVE chunks_trailing_empty(_, _)
chunks_trailing_empty(d, ps) ==
    IF Len(d) < ps THEN <<d>>
    ELSE <<SubSeq(d, 1, ps)>> \o chunks_trailing_empty(SubSeq(d, ps + 1, Len(d)), ps)

\* <[u8]>::chunks(page_size) for page_size > 0.
RECURSIVE chunks(_, _)
chunks(d, ps) ==
    IF Len(d) = 0 THEN <<>>
    ELSE LET n == Min(Len(d), ps)
         IN  <<SubSeq(d, 1, n)>> \o chunks(SubSeq(d, n + 1, Len(d)), ps)

\* Mutant: a chunk the digest fails on is skipped (filter_map(Result::ok)).
RECURSIVE collect_digests_skip(_, _, _, _)
collect_digests_skip(cs, h, acc, log) ==
    IF cs = <<>> THEN [result |-> Ok(acc), digested |-> log]
    ELSE LET r == digest_data(h, Head(cs))
         IN  collect_digests_skip(Tail(cs), h,
                                  IF r.tag = "Err" THEN acc ELSE Append(acc, r.val),
                                  Append(log, Head(cs)))

\* Mutant: one running hasher, never reset: the digest of a chunk covers
\* every byte fed so far.
RECURSIVE collect_digests_chained(_, _, _, _)
collect_digests_chained(cs, h, acc, log) ==
    IF cs = <<>> THEN [result |-> Ok(acc), digested |-> log]
    ELSE LET r == digest_data(h, flatten(log) \o Head(cs))
         IN  IF r.tag = "Err"
             THEN [result |-> r, digested |-> Append(log, Head(cs))]
             ELSE collect_digests_chained(Tail(cs), h, Append(acc, r.val),
                                          Append(log, Head(cs)))

\* .map(|chunk| hash.digest_data(chunk)).collect::<Result<Vec<_>, _>>():
\* the digests of cs appended to acc, stopping at the first Err.  `log` is the
\* sequence of chunks handed to the digest.
RECURSIVE collect_digests(_, _, _, _)
collect_digests(cs, h, acc, log) ==
    IF cs = <<>> THEN [result |-> Ok(acc), digested |-> log]
    ELSE LET r == digest_data(h, Head(cs))
         IN  IF r.tag = "Err"
             THEN [result |-> r, digested |-> Append(log, Head(cs))]
             ELSE collect_digests(Tail(cs), h, Append(acc, r.val), Append(log, Head(cs)))

run_paged_hashes(d, h, ps) ==
    IF ps = 0
    THEN [result |-> Panic, digested |-> <<>>]
    ELSE collect_digests(chunks(d, ps), h, <<>>, <<>>)

compute_paged_hashes(d, h, ps) == run_paged_hashes(d, h, ps).result

\* Mutant: the ranges that fail are dropped (Iterator::flatten over Results).
RECURSIVE collect_ranges_skip(_, _, _, _, _)
collect_ranges_skip(rs, h, ps, acc, log) ==
    IF rs = <<>> THEN [result |-> Ok(acc), digested |-> log]
    ELSE LET r == run_paged_hashes(Head(rs), h, ps)
         IN  IF r.result.tag = "Panic"
             THEN [result |-> r.result, digested |-> log \o r.digested]
             ELSE collect_ranges_skip(Tail(rs), h, ps,
                                      IF r.result.tag = "Ok"
                                      THEN Append(acc, r.result.val) ELSE acc,
                                      log \o r.digested)

\* .map(|data| compute_paged_hashes(..)).collect::<Result<Vec<_>, _>>()
RECURSIVE collect_ranges(_, _, _, _, _)
collect_ranges(rs, h, ps, acc, log) ==
    IF rs = <<>> THEN [result |-> Ok(acc), digested |-> log]
    ELSE LET r == run_paged_hashes(Head(rs), h, ps)
         IN  IF r.result.tag # "Ok"
             THEN [result |-> r.result, digested |-> log \o r.digested]
             ELSE collect_ranges(Tail(rs), h, ps, Append(acc, r.result.val),
                                 log \o r.digested)

digestable_segment_data(m) == m

run_code_hashes(m, h, ps) ==
    LET c == collect_ranges(digestable_segment_data(m), h, ps, <<>>, <<>>)
    IN  IF c.result.tag # "Ok" THEN c
        ELSE [result |-> Ok(flatten(c.result.val)), digested |-> c.digested]

\* Mutant: the segments are joined before paging, so a page spans two ranges.
compute_code_hashes_merged(m, h, ps) ==
    compute_paged_hashes(flatten(digestable_segment_data(m)), h, ps)

compute_code_hashes(m, h, ps) == run_code_hashes(m, h, ps).result

\* ------------------------------------------------------------ the machine
Init ==
    /\ \/ data \in Datas /\ macho = <<>>
       \/ data = <<>> /\ macho \in Machos
    /\ hash \in DigestType
    /\ page_size \in PageSizes
    /\ rejected \in SUBSET Bytes
    /\ called = "none"
    /\ result = Ok(<<>>)
    /\ digested = <<>>
    /\ dists = <<>>
    /\ triples = <<>>
    /\ request = NoRequest
    /\ found = None

ComputePagedHashes ==
    /\ called' = "compute_paged_hashes"
    /\ result' = compute_paged_hashes(data, hash, page_size)
    /\ digested' = run_paged_hashes(data, hash, page_size).digested
    /\ UNCHANGED <<data, macho, hash, page_size, rejected>>
    /\ UNCHANGED distVars

ComputeCodeHashes ==
    /\ called' = "compute_code_hashes"
    /\ result' = compute_code_hashes(macho, hash, page_size)
    /\ digested' = run_code_hashes(macho, hash, page_size).digested
    /\ UNCHANGED <<data, macho, hash, page_size, rejected>>
    /\ UNCHANGED distVars

Next == ComputePagedHashes \/ ComputeCodeHashes

Spec == Init /\ [][Next]_vars

\* ------------------------------------------------ python_distributions.rs
\* Strings are sequences of byte values: "x", "x-", "x_", "az".  Rust orders
\* &str by its bytes, lexicographically.
TargetTriples == {<<120>>, <<120, 45>>, <<120, 95>>, <<97, 122>>}
Versions == {"3.9", "3.10"}

PythonDistributionRecord ==
    [python_major_minor_version : Versions,
     target_triple : TargetTriples,
     supports_prebuilt_extension_modules : BOOLEAN]

\* <str as Ord>::lt
RECURSIVE str_lt(_, _)
str_lt(a, b) ==
    IF b = <<>> THEN FALSE
    ELSE IF a = <<>> THEN TRUE
    ELSE IF Head(a) # Head(b) THEN Head(a) < Head(b)
    ELSE str_lt(Tail(a), Tail(b))

\* The place of x in the sorted sequence s: after every element not above it.
RECURSIVE insert_sorted(_, _)
insert_sorted(s, x) ==
    IF s = <<>> THEN <<x>>
    ELSE IF str_lt(x, Head(s)) THEN <<x>> \o s
    ELSE <<Head(s)>> \o insert_sorted(Tail(s), x)

\* Mutant: the triples are left in registration order.
unsorted(s) == s

\* Itertools::sorted: a stable sort of the items.
RECURSIVE sorted(_)
sorted(s) ==
    IF s = <<>> THEN <<>>
    ELSE insert_sorted(sorted(SubSeq(s, 1, Len(s) - 1)), s[Len(s)])

\* Itertools::dedup: of a run of equal items the first is kept.
RECURSIVE dedup(_)
dedup(s) ==
    IF Len(s) <= 1 THEN s
    ELSE IF s[1] = s[2] THEN dedup(Tail(s))
    ELSE <<s[1]>> \o dedup(Tail(s))

all_target_triples(ds) ==
    dedup(sorted([i \in 1..Len(ds) |-> ds[i].target_triple]))

DistributionFlavor == {"Standalone", "StandaloneStatic", "StandaloneDynamic"}

VersionRequests == {None} \cup {Some(v) : v \in Versions}

\* Mutant: the newest version is assumed when none is requested.
unwrap_or_latest(v) == IF v = None THEN "3.10" ELSE v[1]

\* python_major_minor_version.unwrap_or("3.9")
unwrap_or_default(v) == IF v = None THEN "3.9" ELSE v[1]

\* The match on the flavor in the third filter.
flavor_matches(flavor, dist) ==
    CASE flavor = "Standalone" -> TRUE
      [] flavor = "StandaloneStatic" -> ~dist.supports_prebuilt_extension_modules
      [] flavor = "StandaloneDynamic" -> dist.supports_prebuilt_extension_modules

\* The three filters over self.dists.iter(), in registration order.
RECURSIVE filter_dists(_, _, _, _)
filter_dists(ds, tt, flavor, version) ==
    IF ds = <<>> THEN <<>>
    ELSE LET dist == Head(ds)
             rest == filter_dists(Tail(ds), tt, flavor, version)
         IN  IF /\ dist.python_major_minor_version = version
                /\ dist.target_triple = tt
                /\ flavor_matches(flavor, dist)
             THEN <<dist>> \o rest
             ELSE rest

\* Mutant: the last record that passes the filters is taken.
last_item(s) == IF s = <<>> THEN None ELSE Some(s[Len(s)])

\* .cloned().next()
next_item(s) == IF s = <<>> THEN None ELSE Some(Head(s))

find_distribution(ds, tt, flavor, v) ==
    next_item(filter_dists(ds, tt, flavor, unwrap_or_default(v)))

InitDists ==
    /\ dists \in SeqsUpTo(PythonDistributionRecord, MaxDists)
    /\ triples = <<>>
    /\ request = NoRequest
    /\ found = None
    /\ data = <<>> /\ macho = <<>>
    /\ hash = "Sha256"
    /\ page_size = 1
    /\ rejected = {}
    /\ called = "none"
    /\ result = Ok(<<>>)
    /\ digested = <<>>

AllTargetTriples ==
    /\ called' = "all_target_triples"
    /\ triples' = all_target_triples(dists)
    /\ request' = NoRequest
    /\ found' = None
    /\ UNCHANGED dists
    /\ UNCHANGED <<data, macho, hash, page_size, rejected, result, digested>>

\* The collection is immutable and a query reads nothing but the collection
\* and its arguments, so the queries are taken on the collection as built.
FindDistribution ==
    \E tt \in TargetTriples, flavor \in DistributionFlavor, v \in VersionRequests :
        /\ called = "none"
        /\ called' = "find_distribution"
        /\ request' = [target_triple |-> tt, flavor |-> flavor,
                       python_major_minor_version |-> v]
        /\ found' = find_distribution(dists, tt, flavor, v)
        /\ triples' = <<>>
        /\ UNCHANGED dists
        /\ UNCHANGED <<data, macho, hash, page_size, rejected, result, digested>>

NextDists == AllTargetTriples \/ FindDistribution

SpecDists == InitDists /\ [][NextDists]_vars

\* ---------------------------------------------------- auxiliary notions
PagedCall == called = "compute_paged_hashes"
CodeCall == called = "compute_code_hashes"

\* ceil(n / ps)
NumPages(n, ps) == (n + ps - 1) \div ps

\* Page k (0-based) of d: the bytes d[k*ps .. min((k+1)*ps, len(d))).
Page(d, ps, k) == SubSeq(d, k * ps + 1, Min((k + 1) * ps, Len(d)))

PageRejected(d, ps, k) == \E i \in (k * ps + 1)..Min((k + 1) * ps, Len(d)) : d[i] \in rejected

AnyPageRejected(d, ps) == \E k \in 0..(NumPages(Len(d), ps) - 1) : PageRejected(d, ps, k)

FirstRejectedPage(d, ps) ==
    CHOOSE k \in 0..(NumPages(Len(d), ps) - 1) :
        /\ PageRejected(d, ps, k)
        /\ \A j \in 0..(k - 1) : ~PageRejected(d, ps, j)

\* The paged hashes of ranges i..Len(m) of m, one range after the other.
RECURSIVE PagedFrom(_, _)
PagedFrom(m, i) ==
    IF i > Len(m) THEN <<>>
    ELSE compute_paged_hashes(m[i], hash, page_size).val \o PagedFrom(m, i + 1)

RECURSIVE SumPages(_, _)
SumPages(m, i) ==
    IF i > Len(m) THEN 0
    ELSE NumPages(Len(m[i]), page_size) + SumPages(m, i + 1)

RangeOk(i) == compute_paged_hashes(macho[i], hash, page_size).tag = "Ok"

\* d2 has the length of d and differs from it inside page k only.
DiffersOnlyInPage(d, d2, ps, k) ==
    /\ Len(d2) = Len(d)
    /\ \A i \in 1..Len(d) : d2[i] # d[i] => (i - 1) \div ps = k
    /\ \E i \in 1..Len(d) : d2[i] # d[i]

\* ------------------------------------------------------------------ claims

\* C1: a call of compute_paged_hashes with page_size > 0 that succeeds returns
\* exactly ceil(len(data) / page_size) digests, each of the output length of
\* the chosen algorithm.
C1_DigestCount ==
    (PagedCall /\ page_size > 0 /\ result.tag = "Ok") =>
        /\ Len(result.val) = NumPages(Len(data), page_size)
        /\ \A k \in 1..Len(result.val) : Len(result.val[k]) = output_length(hash)

C1_Witness ==
    /\ PagedCall /\ page_size > 1 /\ result.tag = "Ok"
    /\ Len(data) % page_size # 0
    /\ Len(result.val) = 2

\* C2: entry k of the output is the digest of exactly the bytes
\* data[k*page_size .. min((k+1)*page_size, len)): the chunks handed to the
\* digest are consecutive, cover the data in order and are never empty; a
\* length of N*page_size gives N entries of page_size bytes, a length of
\* N*page_size + r gives N+1 entries, the last over r bytes; equal pages give
\* equal entries.
C2_PageBoundaries ==
    (PagedCall /\ page_size > 0) =>
        LET n == Len(data)
            N == n \div page_size
            r == n % page_size
        IN  /\ \A k \in 1..Len(digested) :
                  /\ digested[k] = Page(data, page_size, k - 1)
                  /\ Len(digested[k]) > 0
            /\ result.tag = "Ok" =>
                  /\ Len(result.val) = IF r = 0 THEN N ELSE N + 1
                  /\ Len(digested) = Len(result.val)
                  /\ flatten(digested) = data
                  /\ \A k \in 1..Len(result.val) :
                        /\ result.val[k] = Digest(hash, Page(data, page_size, k - 1))
                        /\ Len(Page(data, page_size, k - 1)) = IF k <= N THEN page_size ELSE r
                  /\ \A j, k \in 1..Len(result.val) :
                        Page(data, page_size, j - 1) = Page(data, page_size, k - 1)
                            => result.val[j] = result.val[k]

C2_Witness ==
    /\ PagedCall /\ page_size > 1 /\ result.tag = "Ok"
    /\ Len(data) = 2 * page_size + 1
    /\ Len(result.val) = 3
    /\ result.val[1] = result.val[2]
    /\ result.val[3] # result.val[1]

\* C3: the aggregator returns the concatenation, in range order, of the paged
\* hashes of each range taken separately: pages never span two ranges.
C3_Concatenation ==
    (CodeCall /\ page_size > 0) =>
        /\ (\A i \in 1..Len(macho) : RangeOk(i)) => result.tag = "Ok"
        /\ result.tag = "Ok" => result.val = PagedFrom(macho, 1)

C3_Witness ==
    /\ CodeCall /\ page_size = 2 /\ result.tag = "Ok"
    /\ Len(macho) = 2 /\ Len(macho[1]) = 2 /\ Len(macho[2]) = 1
    /\ Len(result.val) = 2
    /\ result.val[1] = Digest(hash, macho[1])
    /\ result.val[2] = Digest(hash, macho[2])

\* C4: when the digest fails on a chunk, compute_paged_hashes returns the
\* error of the first failing chunk in page order and no digest sequence.
C4_FirstChunkError ==
    (PagedCall /\ page_size > 0 /\ AnyPageRejected(data, page_size)) =>
        /\ result.tag = "Err"
        /\ result.val = HashingError(Page(data, page_size, FirstRejectedPage(data, page_size)))

C4_Witness ==
    /\ PagedCall /\ page_size > 0 /\ result.tag = "Err"
    /\ NumPages(Len(data), page_size) = 3
    /\ FirstRejectedPage(data, page_size) = 1
    /\ PageRejected(data, page_size, 2)
    /\ Page(data, page_size, 2) # Page(data, page_size, 1)

\* C5: the first range whose paged hashing fails aborts the aggregation with
\* that error; a result is returned only when every range hashed successfully.
C5_FirstRangeError ==
    CodeCall =>
        /\ result.tag = "Ok" => \A i \in 1..Len(macho) : RangeOk(i)
        /\ \A i \in 1..Len(macho) :
              (/\ compute_paged_hashes(macho[i], hash, page_size).tag = "Err"
               /\ \A j \in 1..(i - 1) : RangeOk(j))
                  => result = compute_paged_hashes(macho[i], hash, page_size)

C5_Witness ==
    /\ CodeCall /\ result.tag = "Err"
    /\ Len(macho) = 2
    /\ RangeOk(1) /\ Len(macho[1]) > 0
    /\ ~RangeOk(2)

\* C6: compute_paged_hashes with page_size = 0 returns an error result.
C6_ZeroPageSizeIsError ==
    (PagedCall /\ page_size = 0) => result.tag = "Err"

\* C7: zero-length data gives zero digests and the digest is never handed an
\* empty chunk; an empty range adds no entry to the aggregator's output.
C7_EmptyData ==
    /\ (PagedCall /\ page_size > 0 /\ Len(data) = 0) =>
           (result = Ok(<<>>) /\ digested = <<>>)
    /\ (called # "none" /\ page_size > 0) =>
           \A k \in 1..Len(digested) : Len(digested[k]) > 0
    /\ (CodeCall /\ page_size > 0 /\ result.tag = "Ok") =>
           /\ Len(result.val) = SumPages(macho, 1)
           /\ result = compute_code_hashes(SelectSeq(macho, LAMBDA r : Len(r) > 0),
                                           hash, page_size)

C7_Witness ==
    /\ CodeCall /\ page_size > 0 /\ result.tag = "Ok"
    /\ Len(macho) = 2 /\ Len(macho[1]) = 0 /\ Len(macho[2]) > 0
    /\ Len(result.val) = 1

\* C8: two inputs of equal length that differ inside chunk k only have the
\* same output at every entry other than k.
C8_ChunkIndependence ==
    (PagedCall /\ page_size > 0 /\ result.tag = "Ok") =>
        \A d2 \in Datas : \A k \in 0..(NumPages(Len(data), page_size) - 1) :
            LET r2 == compute_paged_hashes(d2, hash, page_size)
            IN  (DiffersOnlyInPage(data, d2, page_size, k) /\ r2.tag = "Ok") =>
                    /\ Len(r2.val) = Len(result.val)
                    /\ \A j \in 1..Len(result.val) :
                          j # k + 1 => r2.val[j] = result.val[j]

C8_Witness ==
    /\ PagedCall /\ page_size > 0 /\ result.tag = "Ok"
    /\ Len(result.val) = 3
    /\ \E d2 \in Datas :
          /\ DiffersOnlyInPage(data, d2, page_size, 1)
          /\ compute_paged_hashes(d2, hash, page_size).tag = "Ok"
          /\ compute_paged_hashes(d2, hash, page_size).val[2] # result.val[2]

\* Lexicographic order of byte strings: a proper prefix, or a smaller byte at
\* the first place where the two differ.
LexLess(a, b) ==
    \/ Len(a) < Len(b) /\ \A i \in 1..Len(a) : a[i] = b[i]
    \/ \E i \in 1..Min(Len(a), Len(b)) :
          /\ a[i] < b[i]
          /\ \A j \in 1..(i - 1) : a[j] = b[j]

TriplesCalled == called = "all_target_triples"

\* C10: all_target_triples yields every target triple of the collection
\* exactly once, in ascending lexicographic order, and no other triple.
C10_AllTargetTriples ==
    TriplesCalled =>
        /\ {triples[i] : i \in 1..Len(triples)}
              = {dists[i].target_triple : i \in 1..Len(dists)}
        /\ \A i, j \in 1..Len(triples) : i < j => LexLess(triples[i], triples[j])

C10_Witness ==
    /\ TriplesCalled
    /\ Len(dists) = 3
    /\ dists[1].target_triple = <<120, 45>>
    /\ dists[2].target_triple = <<97, 122>>
    /\ dists[3].target_triple = <<120, 45>>
    /\ triples = <<<<97, 122>>, <<120, 45>>>>

FindCalled == called = "find_distribution"

\* Record i has the triple and the flavor of the request, and version v.
Satisfies(i, v) ==
    /\ dists[i].python_major_minor_version = v
    /\ dists[i].target_triple = request.target_triple
    /\ \/ request.flavor = "Standalone"
       \/ request.flavor = "StandaloneStatic"
            /\ dists[i].supports_prebuilt_extension_modules = FALSE
       \/ request.flavor = "StandaloneDynamic"
            /\ dists[i].supports_prebuilt_extension_modules = TRUE

RequestedVersion ==
    IF request.python_major_minor_version = None THEN "3.9"
    ELSE request.python_major_minor_version[1]

\* C11: find_distribution without a version returns what the call with
\* Some("3.9") returns, for every triple and flavor: None when no 3.9 record
\* has the triple and the flavor, whatever records of other versions do.
C11_NoneMeansThreeNine ==
    (FindCalled /\ request.python_major_minor_version = None) =>
        /\ found = find_distribution(dists, request.target_triple, request.flavor,
                                     Some("3.9"))
        /\ (\A i \in 1..Len(dists) : ~Satisfies(i, "3.9")) => found = None
        /\ found # None => found[1].python_major_minor_version = "3.9"

C11_Witness ==
    /\ FindCalled /\ request.python_major_minor_version = None
    /\ found = None
    /\ \E i \in 1..Len(dists) : Satisfies(i, "3.10")

\* C12: find_distribution returns the first record, in registration order,
\* that has the requested version and triple and matches the flavor; it
\* returns None exactly when there is no such record.
C12_FirstMatch ==
    FindCalled =>
        LET matching == {i \in 1..Len(dists) : Satisfies(i, RequestedVersion)}
        IN  /\ matching = {} <=> found = None
            /\ matching # {} =>
                  \E i \in matching :
                      /\ \A j \in matching : i <= j
                      /\ found = Some(dists[i])

C12_Witness ==
    /\ FindCalled /\ request.flavor = "Standalone"
    /\ Len(dists) = 3
    /\ ~Satisfies(1, RequestedVersion)
    /\ Satisfies(2, RequestedVersion)
    /\ Satisfies(3, RequestedVersion)
    /\ dists[2] # dists[3]
    /\ found = Some(dists[2])

====
